---- MODULE Spec2Model ----
(***************************************************************************)
(* The decorators of python-decorators-0x01: with_db_connection,           *)
(* transactional, cache_query, retry_on_failure and log_queries, and the   *)
(* decorated functions the source builds from them.  One caller thread     *)
(* makes a sequence of calls; each call runs through the wrapper code      *)
(* statement by statement (pc).  The leaf functions run SQL against        *)
(* users.db: what they return or raise depends on the database, so a leaf  *)
(* invocation is a nondeterministic choice among a fresh result object and *)
(* a fresh exception object of one of the kinds `except Exception` sees.   *)
(* sqlite3.connect, Connection.close and Connection.rollback are taken to  *)
(* complete; Connection.commit may raise.                                  *)
(***************************************************************************)
EXTENDS Integers, Sequences, FiniteSets, TLC

\* ---------------------------------------------------------------- bounds
MaxCalls == 2
MaxRetries == 3

\* ------------------------------------------------------- Python values
\* Every value has the same record shape.  t: "None", "str", "obj"
\* (a result object: rows, a tuple, a row count) or "exc" (an exception).
\* s: the characters of a str; for a result object, the query text the
\* leaf executed.  id: object identity.  kind: the exception class.
None == [t |-> "None", s |-> <<>>, id |-> 0, kind |-> ""]
Str(chars) == [t |-> "str", s |-> chars, id |-> 0, kind |-> ""]
Obj(i, q) == [t |-> "obj", s |-> q, id |-> i, kind |-> ""]
Exc(k, i) == [t |-> "exc", s |-> <<>>, id |-> i, kind |-> k]

\* A duration in seconds, as passed to time.sleep.
Seconds(d) == [t |-> "num", s |-> <<>>, id |-> d, kind |-> ""]

\* The query texts callers pass: the empty string, a query, and the same
\* query with its whitespace doubled.
QueryTexts == { <<>>, <<"a", " ", "b">>, <<"a", " ", " ", "b">> }
ArgValues == {None} \cup {Str(q) : q \in QueryTexts}

\* Python truthiness (bool(x)) of the values above.
Truthy(v) == CASE v.t = "None" -> FALSE
               [] v.t = "str" -> v.s # <<>>
               [] OTHER -> TRUE

\* str(x) of the values above
PyStr(v) == IF v.t = "None" THEN <<"N", "o", "n", "e">> ELSE v.s

\* str.split(): the maximal runs of non-blank characters of s, from index i
\* on; cur is the run being read.
RECURSIVE Split(_, _, _)
Split(s, i, cur) ==
    IF i > Len(s) THEN (IF cur = <<>> THEN <<>> ELSE <<cur>>)
    ELSE IF s[i] = " "
         THEN (IF cur = <<>> THEN <<>> ELSE <<cur>>) \o Split(s, i + 1, <<>>)
         ELSE Split(s, i + 1, Append(cur, s[i]))

\* ' '.join(words)
RECURSIVE Join(_)
Join(ws) == IF ws = <<>> THEN <<>>
            ELSE IF Len(ws) = 1 THEN ws[1]
            ELSE ws[1] \o <<" ">> \o Join(Tail(ws))

\* clean_query = ' '.join(query.split()) if isinstance(query, str) else str(query)
CleanQuery(v) == IF v.t = "str" THEN Join(Split(v.s, 1, <<>>)) ELSE PyStr(v)

\* Exception classes.  sqlite3.Error and the rest all derive from Exception.
DbError == "sqlite3.Error"
LeafErrorKinds == {DbError, "Exception"}

\* *args: nothing, one value, or a query followed by one more value.
ArgTuples == {<<>>} \cup {<<v>> : v \in ArgValues}
                   \cup {<<Str(<<"a", " ", "b">>), v>> : v \in ArgValues}
\* **kwargs: the caller may or may not pass query=...
KwNames == {"query"}
KwDicts == UNION { [D -> ArgValues] : D \in SUBSET KwNames }
NoKw == [n \in {} |-> None]

\* Call outcomes: k is "return" or "raise", v the value or the exception.
Return(v) == [k |-> "return", v |-> v]
Raise(e) == [k |-> "raise", v |-> e]
NoOutcome == [k |-> "none", v |-> None]

\* The decorated functions of the source.
ConnFns == {"get_user_by_id", "update_user_email", "fetch_users_with_cache",
            "fetch_users_with_retry"}

VARIABLES
    pc,           \* the caller's position in the wrapper code
    fn,           \* the decorated function being called
    args, kw,     \* the caller's *args and **kwargs
    sig,          \* log_queries: parameter names of the wrapped function
    conn,         \* with_db_connection: the connection of this call (0: none)
    open,         \* the connections currently open
    query,        \* cache_query / log_queries: the located query
    result,       \* transactional / cache_query: local `result`
    exc,          \* the exception an except block is handling
    ret,          \* what the inner wrapper handed to with_db_connection
    attempt,      \* retry_on_failure: loop variable
    retries,      \* retry_on_failure: configured attempt count
    query_cache,  \* cache_query: the module-level dictionary
    cache0,       \* history: query_cache as it was when the call started
    firstResult,  \* history: per query, the first result a cached call returned
    firstCall,    \* history: per query, the arguments of that first call
    outcome,      \* what the last finished call gave its caller
    trace,        \* events of the current (or last finished) call
    log,          \* log records of the current (or last finished) call
    nextId,       \* next fresh object identity
    calls,        \* calls started so far
    \* concurrent callers of fetch_users_with_cache, one call each
    tpc,          \* per thread: position in the wrapper code
    tconn,        \* per thread: the connection of its call (0: none)
    tquery,       \* per thread: local `query`
    tresult,      \* per thread: local `result`
    tout,         \* per thread: what its call gave its caller
    stores        \* history: the writes to query_cache, in order

vars == <<pc, fn, args, kw, sig, conn, open, query, result, exc, ret, attempt,
          retries, query_cache, cache0, firstResult, firstCall, outcome, trace,
          log, nextId, calls, tpc, tconn, tquery, tresult, tout, stores>>

\* The threads of the concurrent callers, and their variables.
Threads == {"t1", "t2"}
threadVars == <<tpc, tconn, tquery, tresult, tout, stores>>
\* What belongs to the single caller alone.
callerVars == <<pc, fn, args, kw, sig, conn, query, result, exc, ret, attempt,
                retries, cache0, firstResult, firstCall, outcome, trace, log,
                calls>>

\* Trace events.  ev: "open", "close", "leaf", "commit", "rollback", "sleep".
Event(e, c, a, k, o) == [ev |-> e, conn |-> c, args |-> a, kw |-> k, out |-> o]
ConnEvent(e, c) == Event(e, c, <<>>, NoKw, NoOutcome)

Init ==
    /\ pc = "idle"
    /\ fn = ""
    /\ args = <<>>
    /\ kw = NoKw
    /\ sig = <<>>
    /\ conn = 0
    /\ open = {}
    /\ query = None
    /\ result = None
    /\ exc = None
    /\ ret = NoOutcome
    /\ attempt = 0
    /\ retries \in 0..MaxRetries
    /\ query_cache = [q \in {} |-> None]
    /\ cache0 = query_cache
    /\ firstResult = [q \in {} |-> None]
    /\ firstCall = [q \in {} |-> None]
    /\ outcome = NoOutcome
    /\ trace = <<>>
    /\ log = <<>>
    /\ nextId = 1
    /\ calls = 0
    /\ tpc = [t \in Threads |-> "idle"]
    /\ tconn = [t \in Threads |-> 0]
    /\ tquery = [t \in Threads |-> None]
    /\ tresult = [t \in Threads |-> None]
    /\ tout = [t \in Threads |-> NoOutcome]
    /\ stores = <<>>

\* --------------------------------------------------------- leaf functions
\* What a leaf can do when invoked: return a fresh result object computed
\* for query text q, or raise a fresh exception.
LeafOutcomes(q) ==
    {Return(Obj(nextId, q))} \cup {Raise(Exc(k, nextId)) : k \in LeafErrorKinds}

\* fetch_users_with_cache(conn, query): Python binds `query` from the first
\* positional argument or from the keyword; both, or a surplus positional
\* argument, is a TypeError before the body runs.
CacheLeafBindable(a, k) ==
    \/ Len(a) = 1 /\ "query" \notin DOMAIN k
    \/ Len(a) = 0 /\ "query" \in DOMAIN k
CacheLeafQuery(a, k) == IF Len(a) >= 1 THEN a[1] ELSE k["query"]
CacheLeafOutcomes(a, k) ==
    IF ~CacheLeafBindable(a, k) THEN {Raise(Exc("TypeError", nextId))}
    ELSE IF CacheLeafQuery(a, k).t # "str" THEN {Raise(Exc("TypeError", nextId))}
    ELSE LeafOutcomes(CacheLeafQuery(a, k).s)

\* Variant: a one-entry cache, a store evicts every other entry.
CachePutEvicting(c, key, v) == [x \in {key} |-> v]

\* query_cache[query] = result
CachePut(c, key, v) == [x \in DOMAIN c \cup {key} |-> IF x = key THEN v ELSE c[x]]

\* ----------------------------------------------------- with_db_connection
\* The first statement of the wrapper the decorated function stacks under
\* with_db_connection.
InnerEntry(f) == CASE f = "get_user_by_id" -> "wdc_call"
                   [] f = "update_user_email" -> "tx_try"
                   [] f = "fetch_users_with_cache" -> "cq_entry"
                   [] f = "fetch_users_with_retry" -> "rt_entry"

\* conn = sqlite3.connect('users.db'); try:
WdcEnter(f, a, k) ==
    /\ pc = "idle"
    /\ calls < MaxCalls
    /\ calls' = calls + 1
    /\ fn' = f /\ args' = a /\ kw' = k
    /\ conn' = nextId
    /\ nextId' = nextId + 1
    /\ open' = open \cup {nextId}
    /\ trace' = <<ConnEvent("open", nextId)>>
    /\ log' = <<>>
    /\ outcome' = NoOutcome
    /\ ret' = NoOutcome
    /\ cache0' = query_cache
    /\ pc' = InnerEntry(f)
    /\ query' = None /\ result' = None /\ exc' = None
    /\ UNCHANGED <<sig, attempt, retries, query_cache, firstResult, firstCall>>
    /\ UNCHANGED threadVars

\* return func(conn, *args, **kwargs)   -- get_user_by_id, undecorated body
WdcCall ==
    /\ pc = "wdc_call"
    /\ \E o \in LeafOutcomes(<<>>) :
          /\ trace' = Append(trace, Event("leaf", conn, args, kw, o))
          /\ ret' = o
    /\ nextId' = nextId + 1
    /\ pc' = "wdc_finally"
    /\ UNCHANGED <<fn, args, kw, sig, conn, open, query, result, exc, attempt,
                   retries, query_cache, cache0, firstResult, firstCall, outcome, log,
                   calls>>
    /\ UNCHANGED threadVars

\* Variant: close after a normal return only (no finally clause).
CloseOnReturnOnly(r) ==
    IF r.k = "return"
    THEN /\ open' = open \ {conn}
         /\ trace' = Append(trace, ConnEvent("close", conn))
    ELSE /\ open' = open
         /\ trace' = trace

\* finally: conn.close()   -- whatever r, the inner call's outcome, is
FinallyClose(r) ==
    /\ open' = open \ {conn}
    /\ trace' = Append(trace, ConnEvent("close", conn))

\* the finally clause runs, then the return value or exception propagates
WdcFinally ==
    /\ pc = "wdc_finally"
    /\ FinallyClose(ret)
    /\ outcome' = ret
    /\ pc' = "done"
    /\ UNCHANGED <<fn, args, kw, sig, conn, query, result, exc, ret, attempt,
                   retries, query_cache, cache0, firstResult, firstCall, log, nextId,
                   calls>>
    /\ UNCHANGED threadVars

\* The caller has the outcome and goes on to its next statement; the
\* finished call's frames are gone.
Resume ==
    /\ pc = "done"
    /\ pc' = "idle"
    /\ fn' = "" /\ args' = <<>> /\ kw' = NoKw /\ sig' = <<>>
    /\ conn' = 0 /\ query' = None /\ result' = None /\ exc' = None
    /\ ret' = NoOutcome /\ outcome' = NoOutcome
    /\ trace' = <<>> /\ log' = <<>>
    /\ cache0' = query_cache
    /\ firstResult' = IF /\ fn = "fetch_users_with_cache"
                         /\ outcome.k = "return"
                         /\ query \notin DOMAIN firstResult
                      THEN CachePut(firstResult, query, outcome.v)
                      ELSE firstResult
    /\ firstCall' = IF /\ fn = "fetch_users_with_cache"
                       /\ outcome.k = "return"
                       /\ query \notin DOMAIN firstCall
                    THEN CachePut(firstCall, query, [args |-> args, kw |-> kw])
                    ELSE firstCall
    /\ UNCHANGED <<open, attempt, retries, query_cache, nextId, calls>>
    /\ UNCHANGED threadVars

\* ---------------------------------------------------------- transactional
\* `result = func(conn, *args, **kwargs)`: the wrapped function returns
\* nothing (update_user_email), returns a value, or raises.
TxInnerOutcomes == {Return(None)} \cup LeafOutcomes(<<>>)

\* conn.commit() completes, or raises a database error.
CommitOutcomes == {Return(None), Raise(Exc(DbError, nextId))}

\* Variant: the except block swallows the exception.
TxSwallow(e) == Return(None)

\* the bare `raise` of the except block
TxReraise(e) == Raise(e)

\* Variant: the except block re-raises without rolling back.
NoRollback(c) == <<>>

\* conn.rollback()
RollbackEvents(c) == <<ConnEvent("rollback", c)>>

\* try: result = func(conn, *args, **kwargs)
TxTry ==
    /\ pc = "tx_try"
    /\ \E o \in TxInnerOutcomes :
          /\ trace' = Append(trace, Event("leaf", conn, args, kw, o))
          /\ IF o.k = "return"
             THEN result' = o.v /\ exc' = exc /\ pc' = "tx_commit"
             ELSE exc' = o.v /\ result' = result /\ pc' = "tx_except"
    /\ nextId' = nextId + 1
    /\ UNCHANGED <<fn, args, kw, sig, conn, open, query, ret, attempt, retries,
                   query_cache, cache0, firstResult, firstCall, outcome, log, calls>>
    /\ UNCHANGED threadVars

\* Variant: the rollback sits in a finally clause and follows every commit.
RollbackAlways(o) == "tx_except"

\* where control goes after conn.commit(): on to `return result`, or, the
\* commit being inside the try block, into the except block
AfterCommit(o) == IF o.k = "return" THEN "wdc_finally" ELSE "tx_except"

\* conn.commit(); return result      -- still inside the try block
TxCommit ==
    /\ pc = "tx_commit"
    /\ \E o \in CommitOutcomes :
          /\ trace' = Append(trace, Event("commit", conn, <<>>, NoKw, o))
          /\ IF o.k = "return"
             THEN ret' = Return(result) /\ exc' = exc
             ELSE exc' = o.v /\ ret' = ret
          /\ pc' = AfterCommit(o)
    /\ nextId' = nextId + 1
    /\ UNCHANGED <<fn, args, kw, sig, conn, open, query, result, attempt, retries,
                   query_cache, cache0, firstResult, firstCall, outcome, log, calls>>
    /\ UNCHANGED threadVars

\* except Exception as e: conn.rollback(); print(...); raise
TxExcept ==
    /\ pc = "tx_except"
    /\ trace' = trace \o RollbackEvents(conn)
    /\ ret' = TxReraise(exc)
    /\ pc' = "wdc_finally"
    /\ UNCHANGED <<fn, args, kw, sig, conn, open, query, result, exc, attempt,
                   retries, query_cache, cache0, firstResult, firstCall, outcome, log,
                   nextId, calls>>
    /\ UNCHANGED threadVars

\* ------------------------------------------------------------ cache_query
\* query = kwargs.get("query") or (args[0] if args else None)
CqLocated(a, k) ==
    LET kq == IF "query" \in DOMAIN k THEN k["query"] ELSE None
    IN  IF Truthy(kq) THEN kq
        ELSE IF Len(a) > 0 THEN a[1] ELSE None

\* Variant: a missing query is not rejected.
CqMissingNever(q) == FALSE

\* if not query:
CqMissing(q) == ~Truthy(q)

\* The positional arguments of a call other than the located query.
RemainingArgs(a, k) ==
    IF "query" \in DOMAIN k /\ Truthy(k["query"]) THEN a
    ELSE IF Len(a) > 0 THEN Tail(a) ELSE a

\* Variant: key on the query and on the arguments bound to it.
CacheKeyWithArgs(q) ==
    LET r == RemainingArgs(args, kw)
    IN  Str(q.s \o <<"|">> \o (IF r = <<>> THEN <<>> ELSE PyStr(r[1])))

\* Variant: key on the whitespace-normalised query.
CacheKeyCollapsed(q) == Str(CleanQuery(q))

\* the dictionary key: the query string itself
CacheKey(q) == q

\* Variant: the lookup never hits.
CqHitNever(q) == FALSE

\* if query in query_cache:
CqHit(q) == CacheKey(q) \in DOMAIN query_cache

\* locate the query; raise ValueError, or return the cached result, or go on
CqEntry ==
    /\ pc = "cq_entry"
    /\ LET q == CqLocated(args, kw) IN
         /\ query' = q
         /\ IF CqMissing(q)
            THEN /\ ret' = Raise(Exc("ValueError", nextId))
                 /\ nextId' = nextId + 1
                 /\ pc' = "wdc_finally"
            ELSE IF CqHit(q)
            THEN /\ ret' = Return(query_cache[CacheKey(q)])
                 /\ nextId' = nextId
                 /\ pc' = "wdc_finally"
            ELSE /\ ret' = ret
                 /\ nextId' = nextId
                 /\ pc' = "cq_miss"
    /\ UNCHANGED <<fn, args, kw, sig, conn, open, result, exc, attempt, retries,
                   query_cache, cache0, firstResult, firstCall, outcome, trace, log, calls>>
    /\ UNCHANGED threadVars

\* Variant: a failure is cached like a result.
CacheTheFailure(c, key, e) == CachePut(c, key, e)

\* func raised: the exception leaves the wrapper before the store is reached
CacheAfterFailure(c, key, e) == c

\* result = func(conn, *args, **kwargs)
CqMiss ==
    /\ pc = "cq_miss"
    /\ \E o \in CacheLeafOutcomes(args, kw) :
          /\ trace' = Append(trace, Event("leaf", conn, args, kw, o))
          /\ IF o.k = "return"
             THEN /\ result' = o.v /\ ret' = ret /\ pc' = "cq_store"
                  /\ query_cache' = query_cache
             ELSE /\ ret' = o /\ result' = result /\ pc' = "wdc_finally"
                  /\ query_cache' =
                        CacheAfterFailure(query_cache, CacheKey(query), o.v)
    /\ nextId' = nextId + 1
    /\ UNCHANGED <<fn, args, kw, sig, conn, open, query, exc, attempt, retries,
                   cache0, firstResult, firstCall, outcome, log, calls>>
    /\ UNCHANGED threadVars

\* query_cache[query] = result; return result
CqStore ==
    /\ pc = "cq_store"
    /\ query_cache' = CachePut(query_cache, CacheKey(query), result)
    /\ ret' = Return(result)
    /\ pc' = "wdc_finally"
    /\ UNCHANGED <<fn, args, kw, sig, conn, open, query, result, exc, attempt,
                   retries, cache0, firstResult, firstCall, outcome, trace, log, nextId,
                   calls>>
    /\ UNCHANGED threadVars

\* ------------------------------------------------------- retry_on_failure
\* Variant: a counter kept across calls instead of a fresh loop variable.
StaleAttempt == IF attempt = 0 THEN 1 ELSE attempt

\* range(1, retries + 1) starts at 1
FirstAttempt == 1

\* Variant: give up one attempt early.
AttemptsRemainOffByOne(n) == n + 1 < retries

\* if attempt < retries:
AttemptsRemain(n) == n < retries

\* @retry_on_failure(retries=3, delay=1): the delay of the source
Delay == 1

\* Variant: the delay grows with the attempt number.
SleepBackoff(n) == Event("sleep", conn, <<Seconds(Delay * n)>>, NoKw, NoOutcome)

\* time.sleep(delay) after failed attempt n
SleepEvent(n) == Event("sleep", conn, <<Seconds(Delay)>>, NoKw, NoOutcome)

\* Variant: raise a new error in place of the last one.
RtRaiseNew(e) == Raise(Exc("RuntimeError", e.id))

\* the bare `raise` after "All retry attempts failed."
RtReraise(e) == Raise(e)

\* for attempt in range(1, retries + 1):   -- an empty range falls through
\* to the end of the function, which returns None
RtEntry ==
    /\ pc = "rt_entry"
    /\ IF retries >= FirstAttempt
       THEN attempt' = FirstAttempt /\ ret' = ret /\ pc' = "rt_try"
       ELSE attempt' = attempt /\ ret' = Return(None) /\ pc' = "wdc_finally"
    /\ UNCHANGED <<fn, args, kw, sig, conn, open, query, result, exc, retries,
                   query_cache, cache0, firstResult, firstCall, outcome, trace, log,
                   nextId, calls>>
    /\ UNCHANGED threadVars

\* Variant: each attempt runs on a connection of its own.
FreshConnPerAttempt == nextId

\* the connection an attempt receives: args[0] of the retry wrapper, the one
\* with_db_connection opened
AttemptConn == conn

\* try: return func(*args, **kwargs)
RtTry ==
    /\ pc = "rt_try"
    /\ \E o \in LeafOutcomes(<<>>) :
          /\ trace' = Append(trace, Event("leaf", AttemptConn, args, kw, o))
          /\ IF o.k = "return"
             THEN ret' = o /\ exc' = exc /\ pc' = "wdc_finally"
             ELSE exc' = o.v /\ ret' = ret /\ pc' = "rt_except"
    /\ nextId' = nextId + 1
    /\ UNCHANGED <<fn, args, kw, sig, conn, open, query, result, attempt, retries,
                   query_cache, cache0, firstResult, firstCall, outcome, log, calls>>
    /\ UNCHANGED threadVars

\* except Exception as e: sleep and go round again, or re-raise
RtExcept ==
    /\ pc = "rt_except"
    /\ IF AttemptsRemain(attempt)
       THEN /\ trace' = Append(trace, SleepEvent(attempt))
            /\ attempt' = attempt + 1
            /\ ret' = ret
            /\ pc' = "rt_try"
       ELSE /\ trace' = trace
            /\ attempt' = attempt
            /\ ret' = RtReraise(exc)
            /\ pc' = "wdc_finally"
    /\ UNCHANGED <<fn, args, kw, sig, conn, open, query, result, exc, retries,
                   query_cache, cache0, firstResult, firstCall, outcome, log, nextId, calls>>
    /\ UNCHANGED threadVars

\* ------------------------------------------------------------ log_queries
\* The parameter lists of the functions log_queries wraps: fetch_all_users
\* (query), execute_query and update_user (query, params), and functions
\* whose query is not first, is named otherwise, or that take nothing.
Signatures == { <<"query">>, <<"query", "params">>, <<"conn", "query">>,
                <<"sql">>, <<>> }

\* params.index('query'), 1-based; 0 stands for the ValueError
QueryIndex(s) == IF \E i \in 1..Len(s) : s[i] = "query"
                 THEN CHOOSE i \in 1..Len(s) : s[i] = "query"
                 ELSE 0

\* f"Query not found in standard position. Args: {args}"
RECURSIVE ArgsText(_)
ArgsText(a) == IF a = <<>> THEN <<>> ELSE PyStr(Head(a)) \o <<",">> \o ArgsText(Tail(a))
NotFoundText(a) == Str(<<"#">> \o ArgsText(a))

\* the query the wrapper finds: kwargs first, then the position of the
\* parameter named 'query' in the wrapped function's signature
LqLocated(s, a, k) ==
    IF "query" \in DOMAIN k THEN k["query"]
    ELSE IF Len(a) > 0 /\ Len(s) > 0
         THEN IF QueryIndex(s) = 0 THEN NotFoundText(a)
              ELSE IF Len(a) >= QueryIndex(s) THEN a[QueryIndex(s)]
              ELSE None
         ELSE None

LogRecord(level, tag, text) == [level |-> level, tag |-> tag, text |-> text]

\* if query: logger.info(... Executing SQL ...) else: logger.warning(...)
PreRecord(q) ==
    IF Truthy(q) THEN LogRecord("INFO", "Executing SQL", CleanQuery(q))
    ELSE LogRecord("WARNING", "no query parameter found", <<>>)

\* Variant: the error record carries the normalised query.
ErrorRecordsCleaned(e, q) ==
    << LogRecord("ERROR", IF e.kind = DbError THEN "Database error"
                          ELSE "Unexpected error", <<>>),
       LogRecord("ERROR", "Failed query", CleanQuery(q)) >>

\* except sqlite3.Error: ... / except Exception: ...   -- two error records
ErrorRecords(e, q) ==
    << LogRecord("ERROR", IF e.kind = DbError THEN "Database error"
                          ELSE "Unexpected error", <<>>),
       LogRecord("ERROR", "Failed query", PyStr(q)) >>

\* Variant: log the error and return None.
LqSwallow(e) == Return(None)

\* the bare `raise` of either except block
LqReraise(e) == Raise(e)

\* the wrapper up to the try block: locate the query, emit the first record
LqEnter(s, a, k) ==
    /\ pc = "idle"
    /\ calls < MaxCalls
    /\ calls' = calls + 1
    /\ fn' = "logged" /\ sig' = s /\ args' = a /\ kw' = k
    /\ query' = LqLocated(s, a, k)
    /\ log' = <<PreRecord(LqLocated(s, a, k))>>
    /\ trace' = <<>>
    /\ outcome' = NoOutcome
    /\ ret' = NoOutcome
    /\ result' = None /\ exc' = None
    /\ conn' = 0
    /\ cache0' = query_cache
    /\ pc' = "lq_try"
    /\ UNCHANGED <<open, attempt, retries, query_cache, firstResult, firstCall, nextId>>
    /\ UNCHANGED threadVars

\* try: result = func(*args, **kwargs) ... return result / except ...: raise
LqTry ==
    /\ pc = "lq_try"
    /\ \E o \in LeafOutcomes(<<>>) :
          /\ trace' = Append(trace, Event("leaf", 0, args, kw, o))
          /\ IF o.k = "return"
             THEN /\ log' = Append(log, LogRecord("INFO", "completed successfully", <<>>))
                  /\ outcome' = Return(o.v)
             ELSE /\ log' = log \o ErrorRecords(o.v, query)
                  /\ outcome' = LqReraise(o.v)
    /\ nextId' = nextId + 1
    /\ pc' = "done"
    /\ UNCHANGED <<fn, args, kw, sig, conn, open, query, result, exc, ret, attempt,
                   retries, query_cache, cache0, firstResult, firstCall, calls>>
    /\ UNCHANGED threadVars

Next ==
    \/ \E f \in ConnFns, a \in ArgTuples, k \in KwDicts : WdcEnter(f, a, k)
    \/ WdcCall
    \/ WdcFinally
    \/ TxTry
    \/ TxCommit
    \/ TxExcept
    \/ CqEntry
    \/ CqMiss
    \/ CqStore
    \/ RtEntry
    \/ RtTry
    \/ RtExcept
    \/ \E s \in Signatures, a \in ArgTuples, k \in KwDicts : LqEnter(s, a, k)
    \/ LqTry
    \/ Resume

Spec == Init /\ [][Next]_vars

\* ------------------------------------ concurrent callers of the cached function
\* The wrappers above, run by several threads at once against the one
\* query_cache.  Each thread calls fetch_users_with_cache(query=q) once; a
\* step is one access to the shared dictionary or one call of the leaf.

\* Variant: the first writer wins (setdefault).
CachePutIfAbsent(c, key, v) ==
    [x \in DOMAIN c \cup {key} |-> IF x \in DOMAIN c THEN c[x] ELSE v]

\* query_cache[query] = result, as one thread's write
SharedStore(c, key, v) == CachePut(c, key, v)

\* with_db_connection.wrapper: connect; cache_query.wrapper: locate the query
ThEnter(t, q) ==
    /\ tpc[t] = "idle"
    /\ tconn' = [tconn EXCEPT ![t] = nextId]
    /\ open' = open \cup {nextId}
    /\ nextId' = nextId + 1
    /\ LET located == CqLocated(<<>>, [n \in KwNames |-> q]) IN
         /\ tquery' = [tquery EXCEPT ![t] = located]
         /\ IF CqMissing(located)
            THEN /\ tout' = [tout EXCEPT ![t] = Raise(Exc("ValueError", nextId))]
                 /\ tpc' = [tpc EXCEPT ![t] = "finally"]
            ELSE /\ tout' = tout
                 /\ tpc' = [tpc EXCEPT ![t] = "cq_check"]
    /\ UNCHANGED <<tresult, stores, query_cache>>
    /\ UNCHANGED callerVars

\* if query in query_cache:
ThCheck(t) ==
    /\ tpc[t] = "cq_check"
    /\ tpc' = [tpc EXCEPT ![t] = IF CqHit(tquery[t]) THEN "cq_hit" ELSE "cq_miss"]
    /\ UNCHANGED <<tconn, tquery, tresult, tout, stores, query_cache, open, nextId>>
    /\ UNCHANGED callerVars

\* return query_cache[query]
ThRead(t) ==
    /\ tpc[t] = "cq_hit"
    /\ tout' = [tout EXCEPT ![t] = Return(query_cache[CacheKey(tquery[t])])]
    /\ tpc' = [tpc EXCEPT ![t] = "finally"]
    /\ UNCHANGED <<tconn, tquery, tresult, stores, query_cache, open, nextId>>
    /\ UNCHANGED callerVars

\* result = func(conn, *args, **kwargs)
ThMiss(t) ==
    /\ tpc[t] = "cq_miss"
    /\ \E o \in CacheLeafOutcomes(<<>>, [n \in KwNames |-> tquery[t]]) :
          IF o.k = "return"
          THEN /\ tresult' = [tresult EXCEPT ![t] = o.v]
               /\ tout' = tout
               /\ tpc' = [tpc EXCEPT ![t] = "cq_store"]
          ELSE /\ tresult' = tresult
               /\ tout' = [tout EXCEPT ![t] = o]
               /\ tpc' = [tpc EXCEPT ![t] = "finally"]
    /\ nextId' = nextId + 1
    /\ UNCHANGED <<tconn, tquery, stores, query_cache, open>>
    /\ UNCHANGED callerVars

\* query_cache[query] = result; return result
ThStore(t) ==
    /\ tpc[t] = "cq_store"
    /\ query_cache' = SharedStore(query_cache, CacheKey(tquery[t]), tresult[t])
    /\ stores' = Append(stores, [t |-> t, key |-> CacheKey(tquery[t]),
                                 v |-> tresult[t]])
    /\ tout' = [tout EXCEPT ![t] = Return(tresult[t])]
    /\ tpc' = [tpc EXCEPT ![t] = "finally"]
    /\ UNCHANGED <<tconn, tquery, tresult, open, nextId>>
    /\ UNCHANGED callerVars

\* with_db_connection.wrapper: finally: conn.close()
ThExit(t) ==
    /\ tpc[t] = "finally"
    /\ open' = open \ {tconn[t]}
    /\ tpc' = [tpc EXCEPT ![t] = "done"]
    /\ UNCHANGED <<tconn, tquery, tresult, tout, stores, query_cache, nextId>>
    /\ UNCHANGED callerVars

NextRace ==
    \/ \E t \in Threads, q \in {v \in ArgValues : Truthy(v)} : ThEnter(t, q)
    \/ \E t \in Threads : ThCheck(t)
    \/ \E t \in Threads : ThRead(t)
    \/ \E t \in Threads : ThMiss(t)
    \/ \E t \in Threads : ThStore(t)
    \/ \E t \in Threads : ThExit(t)

SpecRace == Init /\ [][NextRace]_vars

\* ================================================================ claims
\* Events of one kind in a call's trace.
Events(kind) == SelectSeq(trace, LAMBDA e : e.ev = kind)
Leafs == Events("leaf")
Finished(f) == pc = "done" /\ fn = f

\* C1: every call of a function wrapped by with_db_connection opens exactly
\* one connection before the inner function runs and closes that same
\* connection exactly once before the wrapper exits, whether the inner
\* function returned or raised; the inner function is invoked exactly once,
\* with that connection first and the caller's arguments after it.
C1_OneOpenOneClose ==
    /\ (fn \in ConnFns /\ pc \notin {"idle", "done"}) =>
          /\ conn \in open
          /\ trace[1] = ConnEvent("open", conn)
          /\ Len(Events("open")) = 1
          /\ Len(Events("close")) = 0
    /\ (fn \in ConnFns /\ pc = "done") =>
          /\ open = {}
          /\ trace[1] = ConnEvent("open", conn)
          /\ trace[Len(trace)] = ConnEvent("close", conn)
          /\ Len(Events("open")) = 1
          /\ Len(Events("close")) = 1
          /\ \A i \in 1..Len(Leafs) : Leafs[i].conn = conn
    /\ Finished("get_user_by_id") =>
          /\ Len(Leafs) = 1
          /\ Leafs[1].args = args /\ Leafs[1].kw = kw
          /\ outcome = Leafs[1].out

C1_Witness ==
    /\ Finished("get_user_by_id")
    /\ outcome.k = "raise"
    /\ Len(args) = 2
    /\ Len(Events("close")) = 1

C3_RetryExhaustion ==
    (/\ Finished("fetch_users_with_retry")
     /\ retries >= 1
     /\ \A i \in 1..Len(Leafs) : Leafs[i].out.k = "raise") =>
       /\ Len(Leafs) = retries
       /\ outcome.k = "raise"

C3_Witness ==
    /\ Finished("fetch_users_with_retry")
    /\ calls >= 2
    /\ retries >= 2
    /\ Len(Leafs) = retries
    /\ \A i \in 1..Len(Leafs) : Leafs[i].out.k = "raise"
    /\ outcome.k = "raise"

\* C4: with N >= 1, the retry wrapper keeps invoking the inner function while
\* it raises and attempts remain; when invocation K+1 (K < N) returns, the
\* wrapper returns that result and raises nothing, and the inner function
\* was invoked exactly K+1 times: nothing is invoked after the first success
\* and the wrapper never gives up before attempt N.
C4_RetryRecovery ==
    (Finished("fetch_users_with_retry") /\ retries >= 1) =>
       /\ Len(Leafs) \in 1..retries
       /\ \A i \in 1..(Len(Leafs) - 1) : Leafs[i].out.k = "raise"
       /\ Leafs[Len(Leafs)].out.k = "return" => outcome = Leafs[Len(Leafs)].out
       /\ Len(Leafs) < retries => Leafs[Len(Leafs)].out.k = "return"

C4_Witness ==
    /\ Finished("fetch_users_with_retry")
    /\ Len(Leafs) = 3
    /\ Leafs[3].out.k = "return"
    /\ outcome = Leafs[3].out

\* C5: a call of the cache_query-wrapped function whose query string an
\* earlier call already produced a result for returns that identical result
\* object, without invoking the inner function and without using the
\* connection (it is only opened and closed around the wrapper).
C5_CacheIdempotence ==
    (Finished("fetch_users_with_cache") /\ query \in DOMAIN firstResult) =>
       /\ outcome = Return(firstResult[query])
       /\ Leafs = <<>>
       /\ trace = <<ConnEvent("open", conn), ConnEvent("close", conn)>>

C5_Witness ==
    /\ Finished("fetch_users_with_cache")
    /\ query \in DOMAIN firstResult
    /\ outcome = Return(firstResult[query])
    /\ firstResult[query].t = "obj"

\* C6: two distinct query strings never share a cache slot: every entry
\* query_cache[q] is a result the inner function computed for exactly the
\* query text q, and a call with query q1 never returns a result computed
\* for another query text.
C6_CacheNonAliasing ==
    /\ \A key \in DOMAIN query_cache :
          /\ key.t = "str"
          /\ query_cache[key].t = "obj"
          /\ query_cache[key].s = key.s
    /\ \A k1, k2 \in DOMAIN query_cache :
          k1 # k2 => query_cache[k1].id # query_cache[k2].id
    /\ (Finished("fetch_users_with_cache") /\ outcome.k = "return") =>
          /\ outcome.v.t = "obj"
          /\ outcome.v.s = query.s

C6_Witness ==
    /\ Finished("fetch_users_with_cache")
    /\ outcome.k = "return"
    /\ Str(<<"a", " ", "b">>) \in DOMAIN query_cache
    /\ Str(<<"a", " ", " ", "b">>) \in DOMAIN query_cache

\* C7: a call of the cache_query-wrapped function with no 'query' keyword
\* and no positional argument after the connection raises ValueError; the
\* inner function is not invoked and query_cache is left as it was.
C7_MissingQueryIsValueError ==
    (/\ Finished("fetch_users_with_cache")
     /\ "query" \notin DOMAIN kw
     /\ args = <<>>) =>
       /\ outcome.k = "raise"
       /\ outcome.v.kind = "ValueError"
       /\ Leafs = <<>>
       /\ query_cache = cache0

C7_Witness ==
    /\ Finished("fetch_users_with_cache")
    /\ "query" \notin DOMAIN kw
    /\ args = <<>>
    /\ outcome.k = "raise"
    /\ DOMAIN query_cache # {}

\* C8: log_queries is a pure observer: every call invokes the inner function
\* exactly once with exactly the caller's positional and keyword arguments;
\* a returned value is returned as it is, a raised exception (database error
\* or any other) is raised as it is.
C8_LoggerIsObserver ==
    Finished("logged") =>
       /\ Len(Leafs) = 1
       /\ Leafs[1].args = args
       /\ Leafs[1].kw = kw
       /\ outcome = Leafs[1].out

C8_Witness ==
    /\ Finished("logged")
    /\ outcome.k = "raise"
    /\ outcome.v.kind = DbError
    /\ Len(args) = 2
    /\ "query" \in DOMAIN kw

\* The case of C9: no query argument can be located for the call.
NoQueryLocatable ==
    /\ "query" \notin DOMAIN kw
    /\ \/ QueryIndex(sig) = 0
       \/ Len(args) < QueryIndex(sig)

\* C9: in log_queries, whenever no query argument can be located (no 'query'
\* keyword, and the wrapped function has no parameter named 'query' or the
\* positional arguments do not reach it), the record emitted before the call
\* is the warning record, not the 'Executing SQL' info record, and the
\* wrapped function is still invoked.
C9_WarningWhenNoQuery ==
    (fn = "logged" /\ NoQueryLocatable) =>
       /\ log[1].level = "WARNING"
       /\ log[1].tag = "no query parameter found"
       /\ pc = "done" => Len(Leafs) = 1

\* C10: whenever the leaf function raised and the call did not go on to
\* another attempt, the caller receives exactly the exception object the
\* leaf raised (for retry_on_failure: the one of the last attempt), for each
\* wrapper and stack of the source; an error is never replaced by another
\* kind and never turned into a normal return.
C10_ErrorTransparency ==
    (/\ pc = "done"
     /\ fn \in ConnFns \cup {"logged"}
     /\ Leafs # <<>>
     /\ Leafs[Len(Leafs)].out.k = "raise") =>
       /\ outcome.k = "raise"
       /\ outcome.v = Leafs[Len(Leafs)].out.v
       /\ \A i \in 1..(Len(Leafs) - 1) : outcome.v.id # Leafs[i].out.v.id

C10_Witness ==
    /\ Finished("fetch_users_with_retry")
    /\ Len(Leafs) = 3
    /\ Leafs[1].out.v.kind # Leafs[3].out.v.kind
    /\ outcome = Leafs[3].out
    /\ outcome.k = "raise"

\* C11: in every call of the retry wrapper with N >= 1 a failed attempt
\* numbered below N is followed by exactly one delay of D seconds and then
\* the next attempt; a failure on attempt N ends the call with no delay and
\* re-raises that last exception; a success ends it with no delay.  An
\* exhausted call made N - 1 delays, a call that succeeded on attempt K + 1
\* made K, whatever the kinds of the exceptions.
C11_RetryDelays ==
    (Finished("fetch_users_with_retry") /\ retries >= 1) =>
       /\ Len(trace) = 2 * Len(Leafs) + 1
       /\ \A i \in 1..Len(Leafs) : trace[2 * i] = Leafs[i]
       /\ \A i \in 1..(Len(Leafs) - 1) :
             /\ Leafs[i].out.k = "raise"
             /\ trace[2 * i + 1].ev = "sleep"
             /\ trace[2 * i + 1].args = <<Seconds(Delay)>>
       /\ trace[Len(trace)].ev = "close"
       /\ Len(Events("sleep")) = Len(Leafs) - 1
       /\ Leafs[Len(Leafs)].out.k = "raise" =>
             /\ Len(Leafs) = retries
             /\ Len(Events("sleep")) = retries - 1
             /\ outcome = Leafs[Len(Leafs)].out
       /\ Leafs[Len(Leafs)].out.k = "return" => outcome.k = "return"

C11_Witness ==
    /\ Finished("fetch_users_with_retry")
    /\ retries = 3
    /\ Len(Events("sleep")) = 2
    /\ Leafs[1].out.v.kind = DbError
    /\ Leafs[2].out.v.kind = "Exception"
    /\ Leafs[3].out.k = "raise"
    /\ outcome = Leafs[3].out

\* The events of a finished call after the open and before the close.
Body == SubSeq(trace, 2, Len(trace) - 1)
BodyKinds == [i \in 1..Len(Body) |-> Body[i].ev]

\* C13 as stated: in every call of update_user_email the events are open,
\* leaf, then exactly one of commit (leaf returned) or rollback (leaf
\* raised), then close.
C13_AsStated ==
    Finished("update_user_email") =>
       /\ trace[1].ev = "open"
       /\ trace[Len(trace)].ev = "close"
       /\ \/ BodyKinds = <<"leaf", "commit">> /\ Body[1].out.k = "return"
          \/ BodyKinds = <<"leaf", "rollback">> /\ Body[1].out.k = "raise"

\* C13 (amended): in every call of update_user_email the events are open,
\* leaf, then commit if the leaf returned or rollback if it raised, with one
\* rollback following the commit when the commit itself raised, then close.
\* Leaf, commit and rollback all run on the connection of the call while it
\* is open, and the close happens on the commit path, on the rollback path
\* and on the failed-commit path.
C13_CompositionOrder ==
    /\ Finished("update_user_email") =>
          /\ trace[1] = ConnEvent("open", conn)
          /\ trace[Len(trace)] = ConnEvent("close", conn)
          /\ \/ /\ BodyKinds = <<"leaf", "commit">>
                /\ Body[1].out.k = "return" /\ Body[2].out.k = "return"
             \/ /\ BodyKinds = <<"leaf", "commit", "rollback">>
                /\ Body[1].out.k = "return" /\ Body[2].out.k = "raise"
             \/ /\ BodyKinds = <<"leaf", "rollback">>
                /\ Body[1].out.k = "raise"
          /\ \A i \in 1..Len(Body) : Body[i].conn = conn
    /\ (fn = "update_user_email" /\ pc \in {"tx_try", "tx_commit", "tx_except"}) =>
          /\ conn \in open
          /\ Len(Events("close")) = 0

C13_Witness ==
    /\ Finished("update_user_email")
    /\ BodyKinds = <<"leaf", "rollback">>
    /\ trace[Len(trace)] = ConnEvent("close", conn)
    /\ outcome.k = "raise"

\* C14: in a single-threaded sequence of calls no step removes an entry of
\* query_cache or replaces its value, so the set of cached keys only grows;
\* and every call made with a query string that was cached when the call
\* started returns the stored value, whatever the inner function would
\* return now.
C14_NeverInvalidated ==
    [][ /\ \A key \in DOMAIN query_cache :
              /\ key \in DOMAIN query_cache'
              /\ query_cache'[key] = query_cache[key]
        /\ (/\ pc' = "done"
            /\ fn' = "fetch_users_with_cache"
            /\ query' \in DOMAIN cache0') =>
              /\ outcome' = Return(cache0'[query'])
              /\ query_cache' = cache0' ]_vars

C14_Witness ==
    /\ Finished("fetch_users_with_cache")
    /\ calls = 2
    /\ query \in DOMAIN cache0
    /\ query_cache = cache0
    /\ outcome = Return(query_cache[query])

\* C15: a call of the cache_query-wrapped function made with a query string
\* that an earlier call produced a result for, but with different remaining
\* arguments, is a cache hit: it returns the result computed for the first
\* call's arguments and does not invoke the inner function.
C15_KeyIgnoresParameters ==
    (/\ Finished("fetch_users_with_cache")
     /\ query \in DOMAIN firstResult
     /\ RemainingArgs(args, kw) #
           RemainingArgs(firstCall[query].args, firstCall[query].kw)) =>
       /\ outcome = Return(firstResult[query])
       /\ Leafs = <<>>

C15_Witness ==
    /\ Finished("fetch_users_with_cache")
    /\ query \in DOMAIN firstResult
    /\ firstCall[query].args = <<query>>
    /\ args = <<query, Str(<<"a", " ", " ", "b">>)>>
    /\ outcome = Return(firstResult[query])
    /\ Leafs = <<>>

\* The records before and after the wrapped call.
IsPreRecord(r) ==
    \/ r.level = "INFO" /\ r.tag = "Executing SQL"
    \/ r.level = "WARNING" /\ r.tag = "no query parameter found"
IsSuccessRecord(r) == r.level = "INFO" /\ r.tag = "completed successfully"
IsErrorRecord(r) == r.level = "ERROR"

\* The query argument as the caller passed it, when there is one.
PassedQuery ==
    IF "query" \in DOMAIN kw THEN kw["query"]
    ELSE IF QueryIndex(sig) > 0 /\ Len(args) >= QueryIndex(sig)
         THEN args[QueryIndex(sig)]
         ELSE None

\* C16: every log_queries call emits exactly one pre-call record (info
\* 'Executing SQL' or warning) before the wrapped function is invoked, and
\* after the invocation exactly one outcome: the success record if and only
\* if the function returned, or the error records if and only if it raised,
\* labelled 'Database error' for a database-layer error and 'Unexpected
\* error' otherwise and carrying the query text as the caller passed it;
\* success and error records never occur in the same call.
C16_LogProtocol ==
    /\ (fn = "logged" /\ pc = "lq_try") =>
          /\ Len(log) = 1 /\ IsPreRecord(log[1])
          /\ trace = <<>>
    /\ Finished("logged") =>
          /\ IsPreRecord(log[1])
          /\ \A i \in 2..Len(log) : ~IsPreRecord(log[i])
          /\ (Leafs[1].out.k = "return") <=>
                (Len(log) = 2 /\ IsSuccessRecord(log[2]))
          /\ (Leafs[1].out.k = "raise") <=>
                (\E i \in 1..Len(log) : IsErrorRecord(log[i]))
          /\ Leafs[1].out.k = "raise" =>
                /\ Len(log) = 3
                /\ log[2].level = "ERROR"
                /\ log[2].tag = IF Leafs[1].out.v.kind = DbError
                                THEN "Database error" ELSE "Unexpected error"
                /\ log[3].level = "ERROR" /\ log[3].tag = "Failed query"
                /\ PassedQuery.t = "str" => log[3].text = PassedQuery.s
          /\ ~(\E i, j \in 1..Len(log) :
                  IsSuccessRecord(log[i]) /\ IsErrorRecord(log[j]))

C16_Witness ==
    /\ Finished("logged")
    /\ Leafs[1].out.k = "raise"
    /\ Leafs[1].out.v.kind = "Exception"
    /\ PassedQuery = Str(<<"a", " ", " ", "b">>)
    /\ log[1].text = <<"a", " ", "b">>
    /\ log[3].text = <<"a", " ", " ", "b">>

\* C17: one call of fetch_users_with_retry opens exactly one connection;
\* every attempt receives that connection; it is open during every attempt
\* and every delay and no other connection is opened in between; it is
\* closed exactly once, after the retry loop has ended.
C17_OneConnectionAcrossAttempts ==
    /\ (fn = "fetch_users_with_retry" /\ pc \in {"rt_entry", "rt_try", "rt_except"}) =>
          /\ open = {conn}
          /\ Len(Events("open")) = 1
          /\ Len(Events("close")) = 0
    /\ (fn = "fetch_users_with_retry" /\ pc \in {"wdc_finally", "done"}) =>
          /\ Len(Events("open")) = 1
          /\ trace[1] = ConnEvent("open", conn)
          /\ Len(Leafs) <= retries
          /\ \A i \in 1..Len(Leafs) : Leafs[i].conn = conn
          /\ \A i \in 1..Len(Events("sleep")) : Events("sleep")[i].conn = conn
          /\ pc = "wdc_finally" => open = {conn} /\ Len(Events("close")) = 0
          /\ pc = "done" =>
                /\ open = {}
                /\ Len(Events("close")) = 1
                /\ trace[Len(trace)] = ConnEvent("close", conn)

C17_Witness ==
    /\ fn = "fetch_users_with_retry"
    /\ pc = "rt_try"
    /\ attempt = 3
    /\ Len(Events("sleep")) = 2
    /\ open = {conn}
    /\ Leafs[2].conn = conn

\* C18: when the inner function raises during a cache miss the exception
\* reaches the caller, query_cache is exactly as it was before the call and
\* holds no entry for that query string; and a call whose query string is
\* not cached when it starts is a miss that invokes the inner function, so
\* the next call with that string runs it again.
C18_FailedMissCachesNothing ==
    /\ (/\ Finished("fetch_users_with_cache")
        /\ Leafs # <<>>
        /\ Leafs[1].out.k = "raise") =>
          /\ outcome = Leafs[1].out
          /\ query_cache = cache0
          /\ query \notin DOMAIN query_cache
    /\ (/\ Finished("fetch_users_with_cache")
        /\ Truthy(query)
        /\ query \notin DOMAIN cache0) =>
          Len(Leafs) = 1

C18_Witness ==
    /\ Finished("fetch_users_with_cache")
    /\ calls = 2
    /\ Leafs # <<>>
    /\ Leafs[1].out.k = "raise"
    /\ Leafs[1].out.v.kind = DbError
    /\ query_cache = [q \in {} |-> None]

\* C19: every call of the retry wrapper invokes the inner function at least
\* once and ends by returning the inner function's result or by raising;
\* with an attempt count of 0 it neither returns without having invoked the
\* inner function nor reports success for a function that never ran.
C19_AtLeastOneAttempt ==
    Finished("fetch_users_with_retry") =>
       /\ Len(Leafs) >= 1
       /\ outcome.k \in {"return", "raise"}
       /\ outcome = Leafs[Len(Leafs)].out

\* Position in the trace of the first event of a kind (0: none).
FirstAt(kind) ==
    IF \E i \in 1..Len(trace) : trace[i].ev = kind
    THEN CHOOSE i \in 1..Len(trace) :
            /\ trace[i].ev = kind
            /\ \A j \in 1..(i - 1) : trace[j].ev # kind
    ELSE 0

\* C20 as stated: a call of the transactional wrapper invokes at most one of
\* commit and rollback: commit only after the inner function returned,
\* rollback only after it raised, and never a rollback once a commit has
\* been attempted, also when that commit failed.
C20_AsStated ==
    fn = "update_user_email" =>
       /\ ~(Events("commit") # <<>> /\ Events("rollback") # <<>>)
       /\ Events("commit") # <<>> => Leafs[1].out.k = "return"
       /\ Events("rollback") # <<>> => Leafs[1].out.k = "raise"

\* C20 (amended): a call of the transactional wrapper invokes commit at most
\* once and rollback at most once; commit only after the inner function
\* returned; rollback only directly after the inner function raised or the
\* commit raised; a rollback never follows a commit that completed.
C20_CommitRollbackExclusion ==
    fn = "update_user_email" =>
       /\ Len(Events("commit")) <= 1
       /\ Len(Events("rollback")) <= 1
       /\ Events("commit") # <<>> =>
             /\ trace[FirstAt("commit") - 1].ev = "leaf"
             /\ trace[FirstAt("commit") - 1].out.k = "return"
       /\ Events("rollback") # <<>> =>
             /\ trace[FirstAt("rollback") - 1].ev \in {"leaf", "commit"}
             /\ trace[FirstAt("rollback") - 1].out.k = "raise"
       /\ (Events("commit") # <<>> /\ Events("commit")[1].out.k = "return") =>
             Events("rollback") = <<>>

C20_Witness ==
    /\ Finished("update_user_email")
    /\ Leafs[1].out.k = "return"
    /\ Events("commit")[1].out.k = "raise"
    /\ Len(Events("rollback")) = 1
    /\ outcome = Events("commit")[1].out

\* The writes made to a key, in order.
StoresTo(key) == SelectSeq(stores, LAMBDA w : w.key = key)

\* C12: with two threads calling the cached function concurrently, at every
\* moment the entry of query_cache for a query string is the result written
\* by whichever thread stored to it last (and a string nobody stored is not
\* cached); each thread stores only under its own query string, so no other
\* entry is changed; and a thread that returns returns either the result it
\* computed itself or one another thread stored for the same string.
C12_LastWriterWins ==
    /\ \A key \in DOMAIN query_cache :
          /\ StoresTo(key) # <<>>
          /\ query_cache[key] = StoresTo(key)[Len(StoresTo(key))].v
    /\ \A i \in 1..Len(stores) :
          /\ stores[i].key \in DOMAIN query_cache
          /\ stores[i].key = tquery[stores[i].t]
    /\ \A t \in Threads :
          (tpc[t] = "done" /\ tout[t].k = "return") =>
             \/ tout[t].v = tresult[t] /\ tresult[t].t = "obj"
             \/ \E i \in 1..Len(stores) :
                   /\ stores[i].t # t
                   /\ stores[i].key = tquery[t]
                   /\ stores[i].v = tout[t].v

\* Both threads saw a miss for the same string, both ran the inner function
\* and both stored; the cache holds the second write.
C12_Witness ==
    /\ \A t \in Threads : tpc[t] = "done" /\ tout[t].k = "return"
    /\ tquery["t1"] = tquery["t2"]
    /\ Len(stores) = 2
    /\ stores[1].t # stores[2].t
    /\ stores[1].v # stores[2].v
    /\ query_cache[tquery["t1"]] = stores[2].v
    /\ tout[stores[1].t].v = stores[1].v
====
